---- MODULE Spec2Model ----
(***************************************************************************)
(* Clinical-triage agent (my-agent): the deterministic patient skills, the *)
(* memory-backed skills and the reasoners that orchestrate them.           *)
(*                                                                         *)
(* Python dicts keep insertion order, so a dict is a sequence of entries   *)
(* [k |-> key, v |-> value] with pairwise distinct keys.  Strings are      *)
(* sequences of characters.  Series values are JSON integers; the float    *)
(* products prev * 1.1 and prev * 0.9 are modelled by the outcome of the   *)
(* IEEE-754 double comparison on such integers.                            *)
(***************************************************************************)
EXTENDS FiniteSets, Integers, Sequences, TLC

VARIABLES patients, call, ret, parts, memory, tasks, clock

vars == <<patients, call, ret, parts, memory, tasks, clock>>

\* Longest series (values list) of a lab or a vital in the patient store.
MaxLen == 3

(***************************************************************************)
(* Strings                                                                 *)
(***************************************************************************)

\* str.replace(old, new) for a one-character old.
RECURSIVE Replace(_, _, _)
Replace(s, old, new) ==
    IF Len(s) = 0 THEN ""
    ELSE (IF SubSeq(s, 1, 1) = old THEN new ELSE SubSeq(s, 1, 1))
         \o Replace(SubSeq(s, 2, Len(s)), old, new)

Digit(d) == SubSeq("0123456789", d + 1, d + 1)

RECURSIVE NatStr(_)
NatStr(n) == IF n < 10 THEN Digit(n) ELSE NatStr(n \div 10) \o Digit(n % 10)

\* f"{value}" of a Python int.
IntStr(n) == IF n < 0 THEN "-" \o NatStr(-n) ELSE NatStr(n)

\* sep.join(ps)
RECURSIVE Join(_, _)
Join(sep, ps) ==
    IF Len(ps) = 0 THEN ""
    ELSE IF Len(ps) = 1 THEN ps[1]
    ELSE ps[1] \o sep \o Join(sep, Tail(ps))

(***************************************************************************)
(* Dicts                                                                   *)
(***************************************************************************)

Keys(d) == {d[i].k : i \in 1..Len(d)}

HasKey(d, key) == \E i \in 1..Len(d) : d[i].k = key

\* d.get(key, default)
DictGet(d, key, default) ==
    IF HasKey(d, key)
    THEN d[CHOOSE i \in 1..Len(d) : d[i].k = key].v
    ELSE default

\* values[-n]
FromEnd(values, n) == values[Len(values) - n + 1]

(***************************************************************************)
(* normalize_patient: trend direction                                      *)
(***************************************************************************)

\* Largest power of two not above n (n >= 1): the binade of a double.
RECURSIVE Pow2Floor(_)
Pow2Floor(n) == IF n < 2 THEN 1 ELSE 2 * Pow2Floor(n \div 2)

\* The double product prev * 1.1 lies strictly beyond the exact 11*prev/10
\* (away from zero) when that exact product is the integer with magnitude
\* m: the constant 1.1 is stored as 1.1 + 0.4 * 2^-52, and the excess
\* survives rounding iff the significand of m is above 11/8.
RoundsAway(m) == 8 * m > 11 * Pow2Floor(m)

\* values[-1] > values[-2] * 1.1
ExceedsUpper(curr, prev) ==
    \/ 10 * curr > 11 * prev
    \/ /\ 10 * curr = 11 * prev
       /\ prev < 0
       /\ RoundsAway(-curr)

\* values[-1] < values[-2] * 0.9  (0.9 is stored as 0.9 + 0.1 * 2^-52: the
\* excess never survives rounding when the exact product is an integer)
BelowLower(curr, prev) == 10 * curr < 9 * prev

\* Mutant: the last value compared with the first, not with the one before it.
DirectionFromFirst(values) ==
    IF ExceedsUpper(FromEnd(values, 1), values[1]) THEN "increasing"
    ELSE IF BelowLower(FromEnd(values, 1), values[1]) THEN "decreasing"
    ELSE "stable"

Direction(values) ==
    IF ExceedsUpper(FromEnd(values, 1), FromEnd(values, 2)) THEN "increasing"
    ELSE IF BelowLower(FromEnd(values, 1), FromEnd(values, 2)) THEN "decreasing"
    ELSE "stable"

\* Mutant: a series of one value gets no entry.
RECURSIVE ExtractTrendsNoSingle(_)
ExtractTrendsNoSingle(vitals) ==
    IF Len(vitals) = 0 THEN <<>>
    ELSE LET values == vitals[1].v.values
             rest   == ExtractTrendsNoSingle(Tail(vitals))
         IN  IF Len(values) >= 2
             THEN <<[k |-> vitals[1].k, v |-> Direction(values)]>> \o rest
             ELSE rest

\* The loop giving a vital with an empty series the direction 'stable'.
RECURSIVE ExtractTrendsEmptyStable(_)
ExtractTrendsEmptyStable(vitals) ==
    IF Len(vitals) = 0 THEN <<>>
    ELSE LET values == vitals[1].v.values
             rest   == ExtractTrendsEmptyStable(Tail(vitals))
         IN  IF Len(values) >= 2
             THEN <<[k |-> vitals[1].k, v |-> Direction(values)]>> \o rest
             ELSE <<[k |-> vitals[1].k, v |-> "stable"]>> \o rest

\* The loop over patient["vitals"] building trends.
RECURSIVE ExtractTrends(_)
ExtractTrends(vitals) ==
    IF Len(vitals) = 0 THEN <<>>
    ELSE LET values == vitals[1].v.values
             rest   == ExtractTrends(Tail(vitals))
         IN  IF Len(values) >= 2
             THEN <<[k |-> vitals[1].k, v |-> Direction(values)]>> \o rest
             ELSE IF Len(values) = 1
             THEN <<[k |-> vitals[1].k, v |-> "stable"]>> \o rest
             ELSE rest

\* Mutant: an empty series is defaulted to 0 instead of skipped.
RECURSIVE ExtractRecentLabsDefault(_)
ExtractRecentLabsDefault(labs) ==
    IF Len(labs) = 0 THEN <<>>
    ELSE LET values == labs[1].v.values
             rest   == ExtractRecentLabsDefault(Tail(labs))
         IN  IF Len(values) > 0
             THEN <<[k |-> labs[1].k, v |-> FromEnd(values, 1)]>> \o rest
             ELSE <<[k |-> labs[1].k, v |-> 0]>> \o rest

\* The loop over patient["labs"] building recent_labs.
RECURSIVE ExtractRecentLabs(_)
ExtractRecentLabs(labs) ==
    IF Len(labs) = 0 THEN <<>>
    ELSE LET values == labs[1].v.values
             rest   == ExtractRecentLabs(Tail(labs))
         IN  IF Len(values) > 0
             THEN <<[k |-> labs[1].k, v |-> FromEnd(values, 1)]>> \o rest
             ELSE rest

(***************************************************************************)
(* _generate_trend_summary                                                 *)
(***************************************************************************)

NoSeries == [values |-> <<>>]

\* Mutant helper: only the first occurrence of old is replaced.
RECURSIVE ReplaceFirst(_, _, _)
ReplaceFirst(s, old, new) ==
    IF Len(s) = 0 THEN ""
    ELSE IF SubSeq(s, 1, 1) = old THEN new \o SubSeq(s, 2, Len(s))
    ELSE SubSeq(s, 1, 1) \o ReplaceFirst(SubSeq(s, 2, Len(s)), old, new)

\* Mutant: only the first underscore of a vital name becomes a space.
RECURSIVE VitalPartsFirstUnderscore(_)
VitalPartsFirstUnderscore(trends) ==
    IF Len(trends) = 0 THEN <<>>
    ELSE LET rest == VitalPartsFirstUnderscore(Tail(trends))
         IN  IF trends[1].v # "stable"
             THEN <<ReplaceFirst(trends[1].k, "_", " ") \o " " \o trends[1].v>>
                  \o rest
             ELSE rest

RECURSIVE VitalParts(_)
VitalParts(trends) ==
    IF Len(trends) = 0 THEN <<>>
    ELSE LET rest == VitalParts(Tail(trends))
         IN  IF trends[1].v # "stable"
             THEN <<Replace(trends[1].k, "_", " ") \o " " \o trends[1].v>> \o rest
             ELSE rest

\* Mutant: a CRP of exactly 10 counts as elevated.
CrpPartsInclusive(labs) ==
    LET crp_values == DictGet(labs, "CRP", NoSeries).values
    IN  IF Len(crp_values) > 0 /\ FromEnd(crp_values, 1) >= 10
        THEN <<"elevated CRP (" \o IntStr(FromEnd(crp_values, 1)) \o " mg/L)">>
        ELSE <<>>

CrpParts(labs) ==
    LET crp_values == DictGet(labs, "CRP", NoSeries).values
    IN  IF Len(crp_values) > 0 /\ FromEnd(crp_values, 1) > 10
        THEN <<"elevated CRP (" \o IntStr(FromEnd(crp_values, 1)) \o " mg/L)">>
        ELSE <<>>

\* Mutant: a WBC of exactly 11000 counts as elevated.
WbcPartsInclusive(labs) ==
    LET wbc_values == DictGet(labs, "WBC", NoSeries).values
    IN  IF Len(wbc_values) > 0 /\ FromEnd(wbc_values, 1) >= 11000
        THEN <<"elevated WBC (" \o IntStr(FromEnd(wbc_values, 1)) \o ")">>
        ELSE <<>>

WbcParts(labs) ==
    LET wbc_values == DictGet(labs, "WBC", NoSeries).values
    IN  IF Len(wbc_values) > 0 /\ FromEnd(wbc_values, 1) > 11000
        THEN <<"elevated WBC (" \o IntStr(FromEnd(wbc_values, 1)) \o ")">>
        ELSE <<>>

\* Mutant: CRP and WBC are not excluded from the lab trend rule.
RECURSIVE LabTrendPartsAll(_)
LabTrendPartsAll(labs) ==
    IF Len(labs) = 0 THEN <<>>
    ELSE LET values == labs[1].v.values
             rest   == LabTrendPartsAll(Tail(labs))
         IN  IF /\ Len(values) >= 3
                /\ FromEnd(values, 1) > FromEnd(values, 2)
                /\ FromEnd(values, 2) > FromEnd(values, 3)
             THEN <<labs[1].k \o " trending up">> \o rest
             ELSE rest

RECURSIVE LabTrendParts(_)
LabTrendParts(labs) ==
    IF Len(labs) = 0 THEN <<>>
    ELSE LET values == labs[1].v.values
             rest   == LabTrendParts(Tail(labs))
         IN  IF /\ Len(values) >= 3
                /\ FromEnd(values, 1) > FromEnd(values, 2)
                /\ FromEnd(values, 2) > FromEnd(values, 3)
                /\ labs[1].k \notin {"CRP", "WBC"}
             THEN <<labs[1].k \o " trending up">> \o rest
             ELSE rest

\* Mutant: the WBC rule runs before the CRP rule.
TrendPartsWbcFirst(trends, labs) ==
    VitalParts(trends) \o WbcParts(labs) \o CrpParts(labs) \o LabTrendParts(labs)

\* The list parts as it stands at the return statement.
TrendParts(trends, labs) ==
    VitalParts(trends) \o CrpParts(labs) \o WbcParts(labs) \o LabTrendParts(labs)

\* Mutant: no fallback text when nothing was collected.
SummaryOfJoinOnly(ps) == Join("; ", ps)

SummaryOf(ps) == IF Len(ps) > 0 THEN Join("; ", ps) ELSE "all metrics stable"

GenerateTrendSummary(trends, labs) == SummaryOf(TrendParts(trends, labs))

(***************************************************************************)
(* normalize_patient                                                       *)
(***************************************************************************)

\* Mutant: the first record is the default when no record matches.
FindPatientOrFirst(store, patient_id) ==
    LET found == SelectSeq(store, LAMBDA p : p.patient_id = patient_id)
    IN  IF Len(found) = 0 THEN SubSeq(store, 1, 1) ELSE found

\* next((p for p in patients if p["patient_id"] == patient_id), None)
FindPatient(store, patient_id) ==
    SelectSeq(store, LAMBDA p : p.patient_id = patient_id)

\* An age check without the lower end of the range.
ValidAgeNoFloor(age) == age <= 150

\* PatientContext: age is Field(ge=0, le=150)
ValidAge(age) == age >= 0 /\ age <= 150

NormalizePatient(store, patient_id) ==
    LET found == FindPatient(store, patient_id)
    IN  IF Len(found) = 0
        THEN [status  |-> "raise",
              error   |-> "ValueError",
              message |-> "Patient " \o patient_id \o " not found"]
        ELSE LET patient == found[1]
                 trends  == ExtractTrends(patient.vitals)
             IN  IF ~ValidAge(patient.age)
                 THEN [status  |-> "raise",
                       error   |-> "ValidationError",
                       message |-> "age"]
                 ELSE [status |-> "return",
                       value  |-> [patient_id    |-> patient.patient_id,
                                   age           |-> patient.age,
                                   conditions    |-> patient.conditions,
                                   medications   |-> patient.medications,
                                   recent_labs   |-> ExtractRecentLabs(patient.labs),
                                   vital_trends  |-> trends,
                                   trend_summary |->
                                       GenerateTrendSummary(trends, patient.labs)]]

\* parts of the _generate_trend_summary run inside normalize_patient (the
\* call is evaluated before PatientContext validates); empty when not run.
NormalizeParts(store, patient_id) ==
    LET found == FindPatient(store, patient_id)
    IN  IF Len(found) = 0 THEN <<>>
        ELSE TrendParts(ExtractTrends(found[1].vitals), found[1].labs)

(***************************************************************************)
(* Inputs: the patient store (data/mock_patients.json) and the arguments   *)
(* of a direct _generate_trend_summary call                                *)
(***************************************************************************)

SeqsUpTo(S, n) == UNION {[1..k -> S] : k \in 0..n}

\* All orderings of all subsets of a set of names (dict key orders).
NameOrders(S) ==
    {o \in SeqsUpTo(S, Cardinality(S)) :
        \A i, j \in 1..Len(o) : i # j => o[i] # o[j]}

Series(values) == [values |-> values]

\* Vital values around both thresholds, of either sign, and zero.
VitalValues == {-55, -50, -11, -10, -9, 0, 9, 10, 11, 12}

\* Values of the samples before the last two.
HistValues == {0, 10}

VitalSeries ==
    SeqsUpTo(VitalValues, 1)
    \cup {h \o t : h \in SeqsUpTo(HistValues, MaxLen - 2),
                   t \in [1..2 -> VitalValues]}

RepVitalSeries == {<<>>, <<10>>, <<10, 12>>}

\* Lab values around the CRP (10) and WBC (11000) thresholds.
LabValues == {10, 11, 11000, 11001}

LabSeries ==
    SeqsUpTo(LabValues, 2)
    \cup {h \o t : h \in SeqsUpTo({10, 11001}, MaxLen - 3),
                   t \in [1..3 -> LabValues]}

RepLabSeries == {<<>>, <<10, 11, 11001>>}

LabNames == {"CRP", "WBC", "ALT"}

\* labs dicts whose series all come from RepLabSeries.
RepLabMaps ==
    {[i \in 1..Len(o) |-> [k |-> o[i], v |-> Series(r[i])]] :
        o \in NameOrders(LabNames), r \in [1..Cardinality(LabNames) -> RepLabSeries]}

\* The labs dict m with the series of its f-th entry (if any) replaced by s.
WithSeries(m, f, s) ==
    [i \in 1..Len(m) |-> [k |-> m[i].k,
                          v |-> IF i = f THEN Series(s) ELSE m[i].v]]

TrendNames == {"spo2", "heart_rate", "resp_rate_min"}

TrendDirections == {"increasing", "decreasing", "stable"}

\* trends dicts in any key order.
TrendMaps ==
    {[i \in 1..Len(o) |-> [k |-> o[i], v |-> d[i]]] :
        o \in NameOrders(TrendNames),
        d \in [1..Cardinality(TrendNames) -> TrendDirections]}

FewTrendMaps ==
    {<<>>,
     <<[k |-> "heart_rate", v |-> "stable"]>>,
     <<[k |-> "heart_rate", v |-> "increasing"]>>}

Patient(id, age, labs, vitals) ==
    [patient_id  |-> id,
     age         |-> age,
     conditions  |-> <<"hypertension">>,
     medications |-> <<"lisinopril">>,
     labs        |-> labs,
     vitals      |-> vitals]

FewLabMaps ==
    {<<>>,
     <<[k |-> "CRP", v |-> Series(<<10, 11>>)]>>,
     <<[k |-> "ALT", v |-> Series(<<>>)], [k |-> "WBC", v |-> Series(<<11000>>)]>>}

\* vitals dicts: heart_rate free, temperature (if any) before or after it.
VitalMaps ==
    {<<[k |-> "heart_rate", v |-> Series(s)]>> : s \in VitalSeries}
    \cup {<<[k |-> "heart_rate", v |-> Series(s)],
            [k |-> "temperature", v |-> Series(t)]>> :
            s \in VitalSeries, t \in RepVitalSeries}
    \cup {<<[k |-> "temperature", v |-> Series(t)],
            [k |-> "heart_rate", v |-> Series(s)]>> :
            s \in VitalSeries, t \in RepVitalSeries}

StableVitals == <<[k |-> "heart_rate", v |-> Series(<<10, 10>>)]>>

Ages == {-1, 0, 35, 150, 151}

P002 == Patient("P002", 35, <<[k |-> "CRP", v |-> Series(<<10>>)]>>, StableVitals)

\* The stores: P001 before P002, P001 varied in one respect at a time.
IsStore(store) ==
    \/ \E l \in FewLabMaps, v \in VitalMaps :
           store = <<Patient("P001", 68, l, v), P002>>
    \/ \E m \in RepLabMaps, f \in 1..Cardinality(LabNames), s \in LabSeries :
           store = <<Patient("P001", 68, WithSeries(m, f, s), StableVitals), P002>>
    \/ \E a \in Ages :
           store = <<Patient("P001", a, <<>>, StableVitals), P002>>

PatientIds == {"P001", "P002", "P003"}

NoCall == [op |-> "none"]

NoRet == [status |-> "none"]

(***************************************************************************)
(* Shared memory (app.memory), the wall clock and the calls in flight      *)
(***************************************************************************)

\* What memory.get answers: None for a key never set, else the value set.
None == [present |-> FALSE]

Some(value) == [present |-> TRUE, value |-> value]

\* One context key shared by all patients.
ContextKeyShared(patient_id) == "patient:P001:context"

ContextKey(patient_id) == "patient:" \o patient_id \o ":context"

HistoryKey(patient_id) == "patient:" \o patient_id \o ":decision_history"

MemoryKeys ==
    {ContextKey(p) : p \in PatientIds} \cup {HistoryKey(p) : p \in PatientIds}

EmptyMemory == [key \in MemoryKeys |-> None]

\* The coroutines the event loop can have in flight at once.
TaskIds == {"t1", "t2"}

\* The frame of one call: its arguments, its position, its locals, what it
\* returned or raised, and what it sent outside memory (notes, AI requests).
NewTask(op, args) ==
    [op           |-> op,
     args         |-> args,
     pc           |-> "start",
     context      |-> None,
     decision     |-> None,
     notification |-> None,
     entry        |-> None,
     existing     |-> <<>>,
     ret          |-> NoRet,
     notes        |-> <<>>,
     ai_calls     |-> 0]

Idle == [NewTask("none", [patient_id |-> ""]) EXCEPT !.pc = "idle"]

NoTasks == [t \in TaskIds |-> Idle]

(***************************************************************************)
(* Specification of normalize_patient over the stores                      *)
(***************************************************************************)

InitNormalize ==
    /\ IsStore(patients)
    /\ call = NoCall
    /\ ret = NoRet
    /\ parts = <<>>
    /\ memory = EmptyMemory
    /\ tasks = NoTasks
    /\ clock = 0

\* normalize_patient keeping what it returns in shared memory.
normalize_patient_caching(patient_id) ==
    /\ call' = [op |-> "normalize_patient", patient_id |-> patient_id]
    /\ ret' = NormalizePatient(patients, patient_id)
    /\ parts' = NormalizeParts(patients, patient_id)
    /\ memory' = IF ret'.status = "return"
                 THEN [memory EXCEPT ![ContextKey(patient_id)] = Some(ret'.value)]
                 ELSE memory
    /\ UNCHANGED <<patients, tasks, clock>>

normalize_patient(patient_id) ==
    /\ call' = [op |-> "normalize_patient", patient_id |-> patient_id]
    /\ ret' = NormalizePatient(patients, patient_id)
    /\ parts' = NormalizeParts(patients, patient_id)
    /\ UNCHANGED <<patients, memory, tasks, clock>>

NextNormalize == \E patient_id \in PatientIds : normalize_patient(patient_id)

SpecNormalize == InitNormalize /\ [][NextNormalize]_vars

(***************************************************************************)
(* Specification of _generate_trend_summary called directly                *)
(***************************************************************************)

SummaryCall(trends, labs) ==
    [op |-> "_generate_trend_summary", trends |-> trends, labs |-> labs]

\* The calls: every trends dict with the few labs dicts, and every labs dict
\* with a few trends dicts.
IsSummaryCall(c) ==
    \/ \E t \in TrendMaps, l \in RepLabMaps : c = SummaryCall(t, l)
    \/ \E t \in FewTrendMaps, m \in RepLabMaps,
          f \in 1..Cardinality(LabNames), s \in LabSeries :
           c = SummaryCall(t, WithSeries(m, f, s))

InitSummary ==
    /\ patients = <<P002>>
    /\ IsSummaryCall(call)
    /\ ret = NoRet
    /\ parts = <<>>
    /\ memory = EmptyMemory
    /\ tasks = NoTasks
    /\ clock = 0

\* One run of the function on the arguments of the call.
generate_trend_summary ==
    /\ ret = NoRet
    /\ ret' = [status |-> "return",
               value  |-> GenerateTrendSummary(call.trends, call.labs)]
    /\ parts' = TrendParts(call.trends, call.labs)
    /\ UNCHANGED <<patients, call, memory, tasks, clock>>

NextSummary == generate_trend_summary

SpecSummary == InitSummary /\ [][NextSummary]_vars

(***************************************************************************)
(* Vocabulary of the properties                                            *)
(***************************************************************************)

Range(f) == {f[i] : i \in 1..Len(f)}

Count(ps, p) == Cardinality({i \in 1..Len(ps) : ps[i] = p})

StartsWith(s, prefix) ==
    Len(s) >= Len(prefix) /\ SubSeq(s, 1, Len(prefix)) = prefix

EndsWith(s, suffix) ==
    Len(s) >= Len(suffix) /\ SubSeq(s, Len(s) - Len(suffix) + 1, Len(s)) = suffix

Contains(s, sub) ==
    \E i \in 1..(Len(s) - Len(sub) + 1) : SubSeq(s, i, i + Len(sub) - 1) = sub

\* normalize_patient has returned a context for the record it found.
Normalized == call.op = "normalize_patient" /\ ret.status = "return"

\* The record of the store the call names (identifiers are unique).
Requested == CHOOSE p \in Range(patients) : p.patient_id = call.patient_id

TrendOf(name) == DictGet(ret.value.vital_trends, name, "absent")

Prev(values) == values[Len(values) - 1]

Curr(values) == values[Len(values)]

\* _generate_trend_summary has returned.
Summarized == call.op = "_generate_trend_summary" /\ ret.status = "return"

(***************************************************************************)
(* C1                                                                      *)
(***************************************************************************)

\* The rule as the claim words it, in exact arithmetic.
ClaimedDirection(prev, curr) ==
    IF 10 * curr > 11 * prev THEN "increasing"
    ELSE IF 10 * curr < 9 * prev THEN "decreasing"
    ELSE "stable"

SameLastTwo ==
    \A e1, e2 \in Range(Requested.vitals) :
        /\ Len(e1.v.values) >= 2
        /\ Len(e2.v.values) >= 2
        /\ Prev(e1.v.values) = Prev(e2.v.values)
        /\ Curr(e1.v.values) = Curr(e2.v.values)
        => TrendOf(e1.k) = TrendOf(e2.k)

\* C1 as claimed: for every vital series with two or more values the
\* direction is 'increasing' iff curr > 1.1*prev, 'decreasing' iff
\* curr < 0.9*prev (and not increasing), 'stable' otherwise; curr == 1.1*prev
\* and curr == 0.9*prev both give 'stable'; series with the same last two
\* values get the same direction.
C1_AsClaimed ==
    Normalized =>
        /\ \A e \in Range(Requested.vitals) :
               Len(e.v.values) >= 2 =>
                   LET prev == Prev(e.v.values)
                       curr == Curr(e.v.values)
                   IN  /\ TrendOf(e.k) = ClaimedDirection(prev, curr)
                       /\ (10 * curr = 11 * prev \/ 10 * curr = 9 * prev)
                              => TrendOf(e.k) = "stable"
        /\ SameLastTwo

\* C1 amended: the direction of a vital series with two or more values is
\* decided by its last two values prev and curr only.  For prev >= 0 it is
\* 'increasing' iff curr > 1.1*prev, 'decreasing' iff curr < 0.9*prev,
\* 'stable' otherwise, and both boundaries give 'stable'.  For prev < 0 it is
\* never 'stable': 'increasing' when curr > 1.1*prev (so also at
\* curr == 0.9*prev), 'decreasing' when curr < 1.1*prev, and one of the two
\* at curr == 1.1*prev (as the double product prev * 1.1 rounds).
C1_DirectionFromLastTwo ==
    Normalized =>
        /\ \A e \in Range(Requested.vitals) :
               Len(e.v.values) >= 2 =>
                   LET prev == Prev(e.v.values)
                       curr == Curr(e.v.values)
                   IN  /\ prev >= 0 => TrendOf(e.k) = ClaimedDirection(prev, curr)
                       /\ prev >= 0 /\ (10 * curr = 11 * prev \/ 10 * curr = 9 * prev)
                              => TrendOf(e.k) = "stable"
                       /\ prev < 0 /\ 10 * curr > 11 * prev
                              => TrendOf(e.k) = "increasing"
                       /\ prev < 0 /\ 10 * curr < 11 * prev
                              => TrendOf(e.k) = "decreasing"
                       /\ prev < 0 /\ 10 * curr = 11 * prev
                              => TrendOf(e.k) \in {"increasing", "decreasing"}
        /\ SameLastTwo

\* A three-value series on the upper boundary whose first value differs, and
\* a second vital with the same last two values.
C1_Witness ==
    /\ Normalized
    /\ DictGet(Requested.vitals, "heart_rate", NoSeries).values = <<0, 10, 11>>
    /\ TrendOf("heart_rate") = "stable"
    /\ DictGet(Requested.vitals, "temperature", NoSeries).values = <<10, 12>>
    /\ TrendOf("temperature") = "increasing"

(***************************************************************************)
(* C2                                                                      *)
(***************************************************************************)

\* C2: a vital series with exactly one value always gets direction 'stable',
\* whatever that value is.
C2_SingleValueStable ==
    Normalized =>
        \A e \in Range(Requested.vitals) :
            Len(e.v.values) = 1 => TrendOf(e.k) = "stable"

C2_Witness ==
    /\ Normalized
    /\ DictGet(Requested.vitals, "heart_rate", NoSeries).values = <<-55>>
    /\ TrendOf("heart_rate") = "stable"

(***************************************************************************)
(* C3                                                                      *)
(***************************************************************************)

\* C3: recent_labs has an entry for exactly the labs whose series has at
\* least one value, each entry the last value of that series; a lab with no
\* value has no entry.
C3_RecentLabs ==
    Normalized =>
        LET recent == ret.value.recent_labs
        IN  /\ Keys(recent) = {e.k : e \in {x \in Range(Requested.labs) :
                                                Len(x.v.values) > 0}}
            /\ Len(recent) = Cardinality(Keys(recent))
            /\ \A e \in Range(Requested.labs) :
                   Len(e.v.values) > 0 =>
                       DictGet(recent, e.k, "absent") = Curr(e.v.values)

C3_Witness ==
    /\ Normalized
    /\ DictGet(Requested.labs, "ALT", [values |-> <<0>>]).values = <<>>
    /\ DictGet(Requested.labs, "WBC", NoSeries).values = <<10, 11, 11001>>
    /\ DictGet(Requested.labs, "CRP", NoSeries).values = <<11, 10>>
    /\ ret.value.recent_labs =
           <<[k |-> "WBC", v |-> 11001], [k |-> "CRP", v |-> 10]>>

(***************************************************************************)
(* Vocabulary of the summary properties                                    *)
(***************************************************************************)

\* The vital names with every underscore replaced by a space.
Readable(name) ==
    CASE name = "spo2"          -> "spo2"
      [] name = "heart_rate"    -> "heart rate"
      [] name = "resp_rate_min" -> "resp rate min"

\* The lab values as Python prints them.
Shown(value) ==
    CASE value = 10    -> "10"
      [] value = 11    -> "11"
      [] value = 11000 -> "11000"
      [] value = 11001 -> "11001"

VitalFragment(e) == Readable(e.k) \o " " \o e.v

LastOf(labs, name) == Curr(DictGet(labs, name, NoSeries).values)

HasValue(labs, name) == Len(DictGet(labs, name, NoSeries).values) > 0

CrpElevated(labs) == HasValue(labs, "CRP") /\ LastOf(labs, "CRP") > 10

WbcElevated(labs) == HasValue(labs, "WBC") /\ LastOf(labs, "WBC") > 11000

\* The last three values of the lab entry are strictly increasing.
Rising(e) ==
    LET v == e.v.values
        n == Len(v)
    IN  n >= 3 /\ v[n] > v[n - 1] /\ v[n - 1] > v[n - 2]

TrendingUp(e) == e.k \notin {"CRP", "WBC"} /\ Rising(e)

\* No rule produces a fragment.
NothingConcerning ==
    /\ \A e \in Range(call.trends) : e.v = "stable"
    /\ ~CrpElevated(call.labs)
    /\ ~WbcElevated(call.labs)
    /\ \A e \in Range(call.labs) : ~TrendingUp(e)

\* The rule a fragment comes from: 1 vital, 2 CRP, 3 WBC, 4 lab trend.
Rule(p) ==
    IF EndsWith(p, " trending up") THEN 4
    ELSE IF StartsWith(p, "elevated WBC (") THEN 3
    ELSE IF StartsWith(p, "elevated CRP (") THEN 2
    ELSE 1

(***************************************************************************)
(* C4                                                                      *)
(***************************************************************************)

\* C4: the result is exactly 'all metrics stable' iff no rule produces a
\* fragment (every vital trend stable, CRP absent, empty or <= 10, WBC
\* absent, empty or <= 11000, no other lab with three strictly increasing
\* last values); otherwise it is the non-empty '; '-joined fragment list; it
\* is never the empty string.
C4_AllMetricsStable ==
    Summarized =>
        /\ ret.value = "all metrics stable" <=> NothingConcerning
        /\ ~NothingConcerning => Len(parts) > 0 /\ ret.value = Join("; ", parts)
        /\ NothingConcerning => parts = <<>>
        /\ ret.value # ""

\* A stable vital and a CRP whose last value is exactly 10.
C4_Witness ==
    /\ Summarized
    /\ call.trends = <<[k |-> "heart_rate", v |-> "stable"]>>
    /\ HasValue(call.labs, "CRP") /\ LastOf(call.labs, "CRP") = 10
    /\ ret.value = "all metrics stable"

(***************************************************************************)
(* C5                                                                      *)
(***************************************************************************)

\* C5: every vital whose trend is not 'stable' gets exactly one fragment
\* '<name with every underscore replaced by a space> <direction>', and a
\* vital whose trend is 'stable' gets none.
C5_VitalFragments ==
    Summarized =>
        /\ \A e \in Range(call.trends) :
               /\ e.v # "stable" => Count(parts, VitalFragment(e)) = 1
               /\ e.v = "stable" =>
                      \A p \in Range(parts) : ~StartsWith(p, Readable(e.k) \o " ")
        /\ Cardinality({i \in 1..Len(parts) : Rule(parts[i]) = 1})
               = Cardinality({i \in 1..Len(call.trends) :
                                  call.trends[i].v # "stable"})

C5_Witness ==
    /\ Summarized
    /\ call.trends = <<[k |-> "heart_rate", v |-> "stable"],
                       [k |-> "resp_rate_min", v |-> "decreasing"],
                       [k |-> "spo2", v |-> "increasing"]>>
    /\ SubSeq(parts, 1, 2) = <<"resp rate min decreasing", "spo2 increasing">>

(***************************************************************************)
(* C6                                                                      *)
(***************************************************************************)

\* C6: the fragment 'elevated CRP (<last value> mg/L)' is emitted iff a lab
\* named exactly CRP has at least one value and its last value is > 10; a
\* last value of exactly 10, an absent or an empty CRP series gives no CRP
\* fragment.
C6_ElevatedCrp ==
    Summarized =>
        LET crp == {i \in 1..Len(parts) : StartsWith(parts[i], "elevated CRP")}
        IN  IF HasValue(call.labs, "CRP") /\ LastOf(call.labs, "CRP") > 10
            THEN /\ Cardinality(crp) = 1
                 /\ \A i \in crp :
                        parts[i] = "elevated CRP ("
                                   \o Shown(LastOf(call.labs, "CRP")) \o " mg/L)"
            ELSE crp = {}

C6_Witness ==
    /\ Summarized
    /\ DictGet(call.labs, "CRP", NoSeries).values = <<11001, 11>>
    /\ "elevated CRP (11 mg/L)" \in Range(parts)

(***************************************************************************)
(* C7                                                                      *)
(***************************************************************************)

\* C7: the fragment 'elevated WBC (<last value>)' is emitted iff a lab named
\* exactly WBC has at least one value and its last value is > 11000; a last
\* value of exactly 11000, an absent or an empty WBC series gives no WBC
\* fragment.
C7_ElevatedWbc ==
    Summarized =>
        LET wbc == {i \in 1..Len(parts) : StartsWith(parts[i], "elevated WBC")}
        IN  IF HasValue(call.labs, "WBC") /\ LastOf(call.labs, "WBC") > 11000
            THEN /\ Cardinality(wbc) = 1
                 /\ \A i \in wbc :
                        parts[i] = "elevated WBC ("
                                   \o Shown(LastOf(call.labs, "WBC")) \o ")"
            ELSE wbc = {}

C7_Witness ==
    /\ Summarized
    /\ DictGet(call.labs, "WBC", NoSeries).values = <<11000, 11001>>
    /\ "elevated WBC (11001)" \in Range(parts)

(***************************************************************************)
(* C8                                                                      *)
(***************************************************************************)

\* C8: '<lab name> trending up' is emitted for a lab iff the lab is neither
\* CRP nor WBC, has at least 3 values and its last three values are strictly
\* increasing; CRP and WBC never produce it, nor do equal or non-monotonic
\* last three values.
C8_TrendingUp ==
    Summarized =>
        /\ \A e \in Range(call.labs) :
               Count(parts, e.k \o " trending up") = IF TrendingUp(e) THEN 1 ELSE 0
        /\ \A name \in LabNames \ Keys(call.labs) :
               (name \o " trending up") \notin Range(parts)
        /\ Cardinality({i \in 1..Len(parts) : Rule(parts[i]) = 4})
               = Cardinality({i \in 1..Len(call.labs) : TrendingUp(call.labs[i])})

\* ALT and CRP both rise over their last three values: only ALT is reported
\* as trending up.
C8_Witness ==
    /\ Summarized
    /\ DictGet(call.labs, "CRP", NoSeries).values = <<10, 11, 11001>>
    /\ DictGet(call.labs, "ALT", NoSeries).values = <<10, 11, 11000>>
    /\ "ALT trending up" \in Range(parts)
    /\ "CRP trending up" \notin Range(parts)

(***************************************************************************)
(* C9                                                                      *)
(***************************************************************************)

\* Position in its dict of the entry a fragment of rule 1 or 4 comes from.
Origin(p) ==
    IF Rule(p) = 1
    THEN CHOOSE i \in 1..Len(call.trends) : VitalFragment(call.trends[i]) = p
    ELSE CHOOSE i \in 1..Len(call.labs) : call.labs[i].k \o " trending up" = p

C10_UnknownPatient ==
    /\ call.op = "normalize_patient"
    /\ \A p \in Range(patients) : p.patient_id # call.patient_id
    => /\ ret.status = "raise"
       /\ ret.error = "ValueError"
       /\ Contains(ret.message, call.patient_id)
       /\ Contains(ret.message, "not found")

C10_Witness ==
    /\ call = [op |-> "normalize_patient", patient_id |-> "P003"]
    /\ ret = [status |-> "raise", error |-> "ValueError",
              message |-> "Patient P003 not found"]

(***************************************************************************)
(* The memory-backed skills and the reasoners.  A call runs as a task of   *)
(* the event loop; a step of a task is the effect of the call it awaits    *)
(* together with the code up to its next await.  The effect of memory.set  *)
(* and the resumption after it are separate steps.                         *)
(***************************************************************************)

\* Most decision-log entries stamped in one run of the agent.  The clock
\* (datetime.now) is read as the number of entries stamped so far: it has
\* advanced whenever the next entry is stamped.
MaxLogs == 2

fixed == <<patients, call, ret, parts>>

MemorySet(mem, key, value) == [mem EXCEPT ![key] = Some(value)]

MemoryGet(mem, key) == mem[key]

\* "memory.get(key) or []".
OrEmptyList(got) == IF got.present THEN got.value ELSE <<>>

ContextOf(mem, patient_id) == MemoryGet(mem, ContextKey(patient_id))

HistoryOf(mem, patient_id) == OrEmptyList(MemoryGet(mem, HistoryKey(patient_id)))

ClinicStore ==
    <<Patient("P001", 68,
              <<[k |-> "CRP", v |-> Series(<<10, 11>>)]>>,
              <<[k |-> "heart_rate", v |-> Series(<<10, 12>>)]>>),
      P002>>

EscalationDecisions == {"escalate", "monitor"}

RiskLevels == {"low", "medium", "high"}

\* An EscalationDecision as a dict; confidence in hundredths.
Output(decision, risk_level, confidence) ==
    [escalation_decision  |-> decision,
     risk_level           |-> risk_level,
     confidence           |-> confidence,
     rationale            |-> "CRP rising",
     contributing_factors |-> <<"CRP">>]

\* What the language model can answer to app.ai: the two decisions at the
\* two ends of the confidence range, and answers with one field outside
\* the schema.
AiOutputs ==
    {Output("escalate", "high", 100),
     Output("monitor", "low", 0),
     Output("monitor", "low", 101),
     Output("monitor", "low", -1),
     Output("defer", "medium", 50),
     Output("escalate", "critical", 50)}

\* The schema without the range of confidence.
ValidDecisionAnyConfidence(output) ==
    /\ output.escalation_decision \in EscalationDecisions
    /\ output.risk_level \in RiskLevels

\* Validation of the answer against the schema passed to app.ai.
ValidDecision(output) ==
    /\ output.escalation_decision \in EscalationDecisions
    /\ output.risk_level \in RiskLevels
    /\ output.confidence >= 0
    /\ output.confidence <= 100

\* Arguments of direct send_notification and log_decision calls.
NotifyDecisions == {"escalate", "monitor", "ESCALATE"}

NotifyRiskLevels == {"high"}

LoggedDecisions == {Output("escalate", "high", 100)}

\* send_notification comparing the decision without regard to case.
NotificationAnyCase(patient_id, decision, risk_level, rationale, now) ==
    [type       |-> IF decision \in {"escalate", "ESCALATE"}
                    THEN "CLINICAL_ESCALATION"
                    ELSE "MONITORING_UPDATE",
     patient_id |-> patient_id,
     risk_level |-> risk_level,
     message    |-> rationale,
     timestamp  |-> now,
     status     |-> "sent"]

Notification(patient_id, decision, risk_level, rationale, now) ==
    [type       |-> IF decision = "escalate" THEN "CLINICAL_ESCALATION"
                    ELSE "MONITORING_UPDATE",
     patient_id |-> patient_id,
     risk_level |-> risk_level,
     message    |-> rationale,
     timestamp  |-> now,
     status     |-> "sent"]

LogEntry(patient_id, decision, now) ==
    [patient_id |-> patient_id,
     decision   |-> decision,
     timestamp  |-> now,
     logged_by  |-> "clinical-triage"]

\* The locals of a frame die with it; what it sent outside stays sent.
Unwound(task) ==
    [task EXCEPT !.context = None, !.decision = None, !.entry = None,
                 !.existing = <<>>]

Returned(task, value) ==
    [Unwound(task) EXCEPT !.pc = "done",
                          !.ret = [status |-> "return", value |-> value]]

Raised(task, error, message) ==
    [Unwound(task) EXCEPT !.pc = "raised",
                          !.ret = [status |-> "raise", error |-> error,
                                   message |-> message]]

Finished(t) == tasks[t].pc \in {"done", "raised"}

\* Every finished call has been answered: the agent answers a call as it
\* finishes, before the event loop runs anything else.
Answered == \A t \in TaskIds : ~Finished(t)

\* The task runs no call, and can take one.
Free(t) == tasks[t].pc = "idle" /\ Answered

\* The task is at the given await, and what it awaits is ready.
At(t, pc) == tasks[t].pc = pc /\ Answered

\* triage_patient runs that have not come to log_decision yet.
Pending ==
    {t \in TaskIds : /\ tasks[t].op = "triage_patient"
                     /\ tasks[t].pc \in {"store_ret", "eval_ai"}}

\* A call that will stamp an entry can still do so.
CanLog == clock + Cardinality(Pending) < MaxLogs

Init ==
    /\ patients = ClinicStore
    /\ call = NoCall
    /\ ret = NoRet
    /\ parts = <<>>
    /\ memory = EmptyMemory
    /\ tasks = NoTasks
    /\ clock = 0

\* store_patient_context going on without a context when normalization
\* raises.
StoreFrameLenient(task, store) ==
    LET n == NormalizePatient(store, task.args.patient_id)
    IN  IF n.status = "raise"
        THEN [task EXCEPT !.pc = "store_ret"]
        ELSE [task EXCEPT !.context = n.value, !.pc = "store_ret"]

\* store_patient_context from its call to the effect of its memory.set: the
\* frame of the task, and the memory, afterwards.
StoreFrame(task, store) ==
    LET n == NormalizePatient(store, task.args.patient_id)
    IN  IF n.status = "raise"
        THEN Raised(task, n.error, n.message)
        ELSE [task EXCEPT !.context = n.value, !.pc = "store_ret"]

\* store_patient_context keeping the context without its summary.
StoreMemoryNoSummary(task, store, mem) ==
    LET n == NormalizePatient(store, task.args.patient_id)
    IN  IF n.status = "raise"
        THEN mem
        ELSE MemorySet(mem, ContextKey(task.args.patient_id),
                       [n.value EXCEPT !.trend_summary = ""])

\* store_patient_context leaving a marker in memory when normalization
\* raises.
StoreMemoryAlways(task, store, mem) ==
    LET n == NormalizePatient(store, task.args.patient_id)
    IN  MemorySet(mem, ContextKey(task.args.patient_id),
                  IF n.status = "raise" THEN [error |-> n.message] ELSE n.value)

\* store_patient_context adding to the summary already stored instead of
\* replacing the context.
StoreMemoryAccumulate(task, store, mem) ==
    LET n   == NormalizePatient(store, task.args.patient_id)
        old == MemoryGet(mem, ContextKey(task.args.patient_id))
    IN  IF n.status = "raise"
        THEN mem
        ELSE MemorySet(mem, ContextKey(task.args.patient_id),
                       IF old.present
                       THEN [n.value EXCEPT !.trend_summary =
                                old.value.trend_summary \o "; " \o @]
                       ELSE n.value)

StoreMemory(task, store, mem) ==
    LET n == NormalizePatient(store, task.args.patient_id)
    IN  IF n.status = "raise"
        THEN mem
        ELSE MemorySet(mem, ContextKey(task.args.patient_id), n.value)

store_patient_context(t, patient_id) ==
    /\ Free(t)
    /\ LET task == NewTask("store_patient_context", [patient_id |-> patient_id])
       IN  /\ tasks' = [tasks EXCEPT ![t] = StoreFrame(task, patients)]
           /\ memory' = StoreMemory(task, patients, memory)
    /\ UNCHANGED <<fixed, clock>>

StoredResult(task) ==
    [status     |-> "stored",
     patient_id |-> task.args.patient_id,
     memory_key |-> ContextKey(task.args.patient_id),
     context    |-> task.context]

\* evaluate_risk asking app.ai whatever memory.get answered.
EvalReadAnyway(task, mem) ==
    [task EXCEPT !.ai_calls = @ + 1, !.pc = "eval_ai"]

\* evaluate_risk from its call to the request it sends to app.ai.
EvalRead(task, mem) ==
    LET context == MemoryGet(mem, ContextKey(task.args.patient_id))
    IN  IF ~context.present
        THEN Raised(task, "ValueError",
                    "No context found for patient " \o task.args.patient_id
                    \o ". Run store_patient_context first.")
        ELSE [task EXCEPT !.context = context.value,
                          !.ai_calls = @ + 1,
                          !.pc = "eval_ai"]

\* The task resumes after memory.set: store_patient_context returns, and
\* triage_patient goes on into evaluate_risk.
store_return(t) ==
    /\ At(t, "store_ret")
    /\ tasks' = [tasks EXCEPT ![t] =
                    IF tasks[t].op = "store_patient_context"
                    THEN Returned(tasks[t], StoredResult(tasks[t]))
                    ELSE EvalRead(tasks[t], memory)]
    /\ UNCHANGED <<fixed, memory, clock>>

get_patient_context(t, patient_id) ==
    /\ Free(t)
    /\ LET task    == NewTask("get_patient_context", [patient_id |-> patient_id])
           context == MemoryGet(memory, ContextKey(patient_id))
       IN  tasks' = [tasks EXCEPT ![t] =
                        IF ~context.present
                        THEN Raised(task, "ValueError",
                                    "No context found for patient " \o patient_id
                                    \o ". Run store_patient_context first.")
                        ELSE Returned(task, [status     |-> "found",
                                             patient_id |-> patient_id,
                                             memory_key |-> ContextKey(patient_id),
                                             context    |-> context.value])]
    /\ UNCHANGED <<fixed, memory, clock>>

send_notification(t, patient_id, decision, risk_level, rationale) ==
    /\ Free(t)
    /\ LET task == NewTask("send_notification",
                           [patient_id |-> patient_id, decision |-> decision,
                            risk_level |-> risk_level, rationale |-> rationale])
           notification == Notification(patient_id, decision, risk_level,
                                        rationale, clock)
       IN  tasks' = [tasks EXCEPT ![t] =
                        Returned([task EXCEPT !.notification = notification],
                                 notification)]
    /\ UNCHANGED <<fixed, memory, clock>>

log_decision(t, patient_id, decision) ==
    /\ Free(t)
    /\ CanLog
    /\ LET task == NewTask("log_decision",
                           [patient_id |-> patient_id, decision |-> decision])
       IN  tasks' = [tasks EXCEPT ![t] =
                        [task EXCEPT !.entry = LogEntry(patient_id, decision, clock),
                                     !.pc = "log_get"]]
    /\ clock' = clock + 1
    /\ UNCHANGED <<fixed, memory>>

\* log_decision putting its entry in front of the list it got.
log_get_prepend(t) ==
    /\ At(t, "log_get")
    /\ tasks' = [tasks EXCEPT ![t] =
                    [tasks[t] EXCEPT
                        !.existing = <<tasks[t].entry>>
                                     \o HistoryOf(memory, tasks[t].args.patient_id),
                        !.pc = "log_set"]]
    /\ UNCHANGED <<fixed, memory, clock>>

\* memory.get answers log_decision, which appends its entry to the list it
\* got and sends the list to memory.set.
log_get(t) ==
    /\ At(t, "log_get")
    /\ tasks' = [tasks EXCEPT ![t] =
                    [tasks[t] EXCEPT
                        !.existing = Append(HistoryOf(memory, tasks[t].args.patient_id),
                                            tasks[t].entry),
                        !.pc = "log_set"]]
    /\ UNCHANGED <<fixed, memory, clock>>

\* The memory.set of the history leaving the call waiting for its answer.
log_set_again(t) ==
    /\ At(t, "log_set")
    /\ memory' = MemorySet(memory, HistoryKey(tasks[t].args.patient_id),
                           tasks[t].existing)
    /\ UNCHANGED <<fixed, tasks, clock>>

log_set(t) ==
    /\ At(t, "log_set")
    /\ memory' = MemorySet(memory, HistoryKey(tasks[t].args.patient_id),
                           tasks[t].existing)
    /\ tasks' = [tasks EXCEPT ![t] = [tasks[t] EXCEPT !.pc = "log_ret"]]
    /\ UNCHANGED <<fixed, clock>>

TriageResult(task) ==
    [patient_id        |-> task.args.patient_id,
     workflow          |-> "complete",
     decision          |-> task.decision,
     notification_sent |-> task.notification # None]

\* The task resumes after memory.set: log_decision returns, and
\* triage_patient notes the end of the workflow and returns.
log_return(t) ==
    /\ At(t, "log_ret")
    /\ tasks' = [tasks EXCEPT ![t] =
                    IF tasks[t].op = "log_decision"
                    THEN Returned(tasks[t], [status |-> "logged",
                                             entry  |-> tasks[t].entry])
                    ELSE LET noted == [tasks[t] EXCEPT
                                          !.notes = Append(@, "Triage complete")]
                         IN  Returned(noted, TriageResult(noted))]
    /\ UNCHANGED <<fixed, memory, clock>>

\* get_decision_history raising, as get_patient_context does, when memory
\* holds nothing for the patient.
get_decision_history_strict(t, patient_id) ==
    /\ Free(t)
    /\ LET task    == NewTask("get_decision_history", [patient_id |-> patient_id])
           history == HistoryOf(memory, patient_id)
       IN  tasks' = [tasks EXCEPT ![t] =
                        IF history = <<>>
                        THEN Raised(task, "ValueError", "No history found")
                        ELSE Returned(task, [patient_id     |-> patient_id,
                                             decision_count |-> Len(history),
                                             history        |-> history])]
    /\ UNCHANGED <<fixed, memory, clock>>

get_decision_history(t, patient_id) ==
    /\ Free(t)
    /\ LET task    == NewTask("get_decision_history", [patient_id |-> patient_id])
           history == HistoryOf(memory, patient_id)
       IN  tasks' = [tasks EXCEPT ![t] =
                        Returned(task, [patient_id     |-> patient_id,
                                        decision_count |-> Len(history),
                                        history        |-> history])]
    /\ UNCHANGED <<fixed, memory, clock>>

evaluate_risk(t, patient_id) ==
    /\ Free(t)
    /\ tasks' = [tasks EXCEPT ![t] =
                    EvalRead(NewTask("evaluate_risk", [patient_id |-> patient_id]),
                             memory)]
    /\ UNCHANGED <<fixed, memory, clock>>

\* triage_patient notifying whatever the decision is.
AfterDecisionNotifying(task, now) ==
    LET decision == task.decision
        patient_id == task.args.patient_id
    IN  [task EXCEPT
            !.notification =
                Notification(patient_id, decision.escalation_decision,
                             decision.risk_level, decision.rationale, now),
            !.entry = LogEntry(patient_id, decision, now),
            !.pc = "log_get"]

\* triage_patient after evaluate_risk returned: the notification, then
\* log_decision up to its memory.get.
AfterDecision(task, now) ==
    LET decision == task.decision
        patient_id == task.args.patient_id
    IN  [task EXCEPT
            !.notification =
                IF decision.escalation_decision = "escalate"
                THEN Notification(patient_id, decision.escalation_decision,
                                  decision.risk_level, decision.rationale, now)
                ELSE None,
            !.entry = LogEntry(patient_id, decision, now),
            !.pc = "log_get"]

\* app.ai answers: the answer is validated, evaluate_risk notes it and
\* returns it.
ai_answer(t, output) ==
    /\ At(t, "eval_ai")
    /\ tasks' = [tasks EXCEPT ![t] =
                    IF ~ValidDecision(output)
                    THEN Raised(tasks[t], "ValidationError", "EscalationDecision")
                    ELSE LET noted == [tasks[t] EXCEPT
                                          !.decision = output,
                                          !.notes = Append(@, "Risk evaluation complete")]
                         IN  IF tasks[t].op = "evaluate_risk"
                             THEN Returned(noted, output)
                             ELSE AfterDecision(noted, clock)]
    /\ clock' = IF ValidDecision(output) /\ tasks[t].op = "triage_patient"
                THEN clock + 1 ELSE clock
    /\ UNCHANGED <<fixed, memory>>

\* evaluate_risk asking app.ai again when it fails.
ai_error_retry(t) ==
    /\ At(t, "eval_ai")
    /\ tasks' = [tasks EXCEPT ![t] = [tasks[t] EXCEPT !.ai_calls = @ + 1]]
    /\ UNCHANGED <<fixed, memory, clock>>

\* A failure of app.ai that takes the stored context back.
ai_error_rollback(t) ==
    /\ At(t, "eval_ai")
    /\ tasks' = [tasks EXCEPT ![t] = Raised(tasks[t], "AIError", "app.ai")]
    /\ memory' = [memory EXCEPT ![ContextKey(tasks[t].args.patient_id)] = None]
    /\ UNCHANGED <<fixed, clock>>

\* app.ai fails (provider error, timeout).
ai_error(t) ==
    /\ At(t, "eval_ai")
    /\ tasks' = [tasks EXCEPT ![t] = Raised(tasks[t], "AIError", "app.ai")]
    /\ UNCHANGED <<fixed, memory, clock>>

triage_patient(t, patient_id) ==
    /\ Free(t)
    /\ CanLog
    /\ LET task == [NewTask("triage_patient", [patient_id |-> patient_id])
                       EXCEPT !.notes = <<"Starting triage workflow">>]
       IN  /\ tasks' = [tasks EXCEPT ![t] = StoreFrame(task, patients)]
           /\ memory' = StoreMemory(task, patients, memory)
    /\ UNCHANGED <<fixed, clock>>

\* A call arrives at the agent and runs as a task.
Call(t) ==
    \/ \E patient_id \in PatientIds : store_patient_context(t, patient_id)
    \/ \E patient_id \in PatientIds : get_patient_context(t, patient_id)
    \/ \E patient_id \in PatientIds, decision \in NotifyDecisions,
          risk_level \in NotifyRiskLevels :
           send_notification(t, patient_id, decision, risk_level, "CRP rising")
    \/ \E patient_id \in PatientIds, decision \in LoggedDecisions :
           log_decision(t, patient_id, decision)
    \/ \E patient_id \in PatientIds : get_decision_history(t, patient_id)
    \/ \E patient_id \in PatientIds : evaluate_risk(t, patient_id)
    \/ \E patient_id \in PatientIds : triage_patient(t, patient_id)

\* A call in flight takes its next step.
Step(t) ==
    \/ store_return(t)
    \/ log_get(t)
    \/ log_set(t)
    \/ log_return(t)
    \/ \E output \in AiOutputs : ai_answer(t, output)
    \/ ai_error(t)

\* The agent answers the caller of a finished call, and the task ends.
respond(t) ==
    /\ Finished(t)
    /\ tasks' = [tasks EXCEPT ![t] = Idle]
    /\ UNCHANGED <<fixed, memory, clock>>

\* Calls overlap as the event loop interleaves them.
Next == \E t \in TaskIds : Call(t) \/ Step(t) \/ respond(t)

Spec == Init /\ [][Next]_vars

\* The one task of sequential use.
Main == "t1"

\* normalize_patient called between the calls that run as tasks; what it
\* returned last stays with its caller.
normalize_between(patient_id) ==
    /\ Free(Main)
    /\ normalize_patient(patient_id)

\* Sequential use: every call runs as the one task, so a call arrives only
\* when no call is in flight.
NextSequential ==
    \/ \E patient_id \in PatientIds : normalize_between(patient_id)
    \/ Call(Main)
    \/ Step(Main)
    \/ respond(Main)

SpecSequential == Init /\ [][NextSequential]_vars

(***************************************************************************)
(* Vocabulary of the properties of the agent                               *)
(***************************************************************************)

\* In this step the task finishes a call of op: it returns, or it raises.
Returns(t, op) == ~Finished(t) /\ tasks'[t].op = op /\ tasks'[t].pc = "done"

Raises(t, op) == ~Finished(t) /\ tasks'[t].op = op /\ tasks'[t].pc = "raised"

Finishes(t, op) == Returns(t, op) \/ Raises(t, op)

\* In this step the task takes a call of op.
Takes(t, op) == tasks[t].pc = "idle" /\ tasks'[t].op = op /\ tasks'[t].pc # "idle"

\* What the call of the task is about, and what it gave.
Subject(t) == tasks'[t].args.patient_id

Value(t) == tasks'[t].ret.value

Error(t) == tasks'[t].ret

\* Some key of memory holds something.
Written(mem) == \E key \in MemoryKeys : mem[key].present

\* This step is a run of normalize_patient that its caller can tell from
\* the run before.
NormalizeRun == <<call, ret, parts>>' # <<call, ret, parts>>

Normal(patient_id) == NormalizePatient(patients, patient_id).value

\* C12: when store_patient_context(p) returns, the key 'patient:<p>:context'
\* holds exactly the context normalize_patient(p) returns and the call
\* returns status 'stored' with that key and that context; and a
\* get_patient_context(p) that finds what the store left under the key
\* returns status 'found' with that same context.
C12_StoreThenGet ==
    [][\A t \in TaskIds :
        /\ Returns(t, "store_patient_context") =>
              /\ memory'["patient:" \o Subject(t) \o ":context"]
                     = Some(Normal(Subject(t)))
              /\ Value(t) = [status     |-> "stored",
                             patient_id |-> Subject(t),
                             memory_key |-> "patient:" \o Subject(t) \o ":context",
                             context    |-> Normal(Subject(t))]
        /\ (/\ Finishes(t, "get_patient_context")
            /\ memory["patient:" \o Subject(t) \o ":context"].present) =>
              /\ Returns(t, "get_patient_context")
              /\ Value(t).status = "found"
              /\ Value(t).patient_id = Subject(t)
              /\ Value(t).context = Normal(Subject(t))]_vars

\* get_patient_context has returned the context of P001 that a store left.
C12_Witness ==
    \E t \in TaskIds :
        /\ tasks[t].op = "get_patient_context"
        /\ tasks[t].pc = "done"
        /\ tasks[t].ret.value.status = "found"
        /\ tasks[t].ret.value.context = Normal("P001")
        /\ memory["patient:P001:context"] = Some(Normal("P001"))

\* C13: get_patient_context(p) and evaluate_risk(p) called while memory
\* holds no context for p raise a 'No context found' error; evaluate_risk
\* has then made no AI call and emitted no note, and neither call has
\* changed memory.
C13_NoContextFound ==
    [][\A t \in TaskIds :
        (/\ Takes(t, "get_patient_context") \/ Takes(t, "evaluate_risk")
         /\ ~memory["patient:" \o Subject(t) \o ":context"].present) =>
            /\ tasks'[t].pc = "raised"
            /\ Error(t).error = "ValueError"
            /\ Contains(Error(t).message, "No context found")
            /\ tasks'[t].ai_calls = 0
            /\ tasks'[t].notes = <<>>
            /\ memory' = memory]_vars

\* evaluate_risk has raised for a patient without context in a memory that
\* holds the context of another patient.
C13_Witness ==
    \E t \in TaskIds :
        /\ tasks[t].op = "evaluate_risk"
        /\ tasks[t].pc = "raised"
        /\ tasks[t].args.patient_id = "P001"
        /\ Contains(tasks[t].ret.message, "No context found")
        /\ ~memory["patient:P001:context"].present
        /\ memory["patient:P002:context"].present

\* The identifier matches no record of the patient store.
Unknown(patient_id) ==
    \A i \in 1..Len(patients) : patients[i].patient_id # patient_id

\* C14: store_patient_context called with an identifier that matches no
\* patient record raises the not-found error of normalize_patient as
\* normalize_patient raised it, and every memory key keeps the value it had
\* before the call.
C14_StoreUnknown ==
    [][\A t \in TaskIds :
        (Takes(t, "store_patient_context") /\ Unknown(Subject(t))) =>
            /\ tasks'[t].pc = "raised"
            /\ Error(t) = [status  |-> "raise",
                           error   |-> "ValueError",
                           message |-> "Patient " \o Subject(t) \o " not found"]
            /\ Error(t) = NormalizePatient(patients, Subject(t))
            /\ memory' = memory]_vars

\* store_patient_context has raised for P003 while memory holds something.
C14_Witness ==
    \E t \in TaskIds :
        /\ tasks[t].op = "store_patient_context"
        /\ tasks[t].pc = "raised"
        /\ tasks[t].args.patient_id = "P003"
        /\ Unknown("P003")
        /\ Written(memory)

\* The history stored for a patient: the list under the key, empty when the
\* key was never set.
Stored(mem, patient_id) ==
    LET got == mem["patient:" \o patient_id \o ":decision_history"]
    IN  IF got.present THEN got.value ELSE <<>>

\* The decision payload the logging call of the task was given.
Payload(t) ==
    IF tasks[t].op = "log_decision" THEN tasks[t].args.decision
    ELSE tasks[t].decision

\* An audit entry for the patient and the payload.
IsEntry(e, patient_id, decision) ==
    /\ DOMAIN e = {"patient_id", "decision", "timestamp", "logged_by"}
    /\ e.patient_id = patient_id
    /\ e.decision = decision
    /\ e.logged_by = "clinical-triage"

\* C15: the audit log is append-only under sequential use.  A stored
\* history changes only by the memory.set of the logging call in flight,
\* which extends the history of its patient by exactly one entry at the end
\* (carrying the patient, the given payload, a timestamp and logged_by =
\* 'clinical-triage') and leaves the earlier entries as they were; a
\* log_decision call returns that entry, the last of the history; and the
\* entries of a history are in the order their calls were made (the
\* order of their timestamps).
C15_AppendOnly ==
    [][/\ \A p \in PatientIds :
            Stored(memory', p) # Stored(memory, p) =>
                \E t \in TaskIds :
                    /\ tasks[t].op \in {"log_decision", "triage_patient"}
                    /\ tasks[t].pc = "log_set" /\ tasks'[t].pc = "log_ret"
                    /\ tasks[t].args.patient_id = p
                    /\ Len(Stored(memory', p)) = Len(Stored(memory, p)) + 1
                    /\ SubSeq(Stored(memory', p), 1, Len(Stored(memory, p)))
                           = Stored(memory, p)
                    /\ IsEntry(Stored(memory', p)[Len(Stored(memory', p))],
                               p, Payload(t))
       /\ \A t \in TaskIds :
            Returns(t, "log_decision") =>
                /\ Value(t).status = "logged"
                /\ IsEntry(Value(t).entry, Subject(t), tasks[t].args.decision)
                /\ Stored(memory, Subject(t)) # <<>>
                /\ Value(t).entry
                       = Stored(memory, Subject(t))[Len(Stored(memory, Subject(t)))]
       /\ \A p \in PatientIds :
            \A i, j \in 1..Len(Stored(memory', p)) :
                i < j => Stored(memory', p)[i].timestamp
                             < Stored(memory', p)[j].timestamp]_vars

\* Two log_decision calls for P001 have returned one after the other.
C15_Witness ==
    /\ tasks[Main].op = "log_decision"
    /\ tasks[Main].pc = "done"
    /\ Len(Stored(memory, "P001")) = 2
    /\ tasks[Main].ret.value.entry = Stored(memory, "P001")[2]
    /\ Stored(memory, "P001")[1].decision = tasks[Main].args.decision

\* C16: get_decision_history(p) never raises and never changes memory; it
\* returns the history stored for p with decision_count equal to the length
\* of that history, and for a patient with no logged decision it returns
\* decision_count 0 and an empty history.
C16_DecisionHistory ==
    [][\A t \in TaskIds :
        Takes(t, "get_decision_history") =>
            /\ tasks'[t].pc = "done"
            /\ memory' = memory
            /\ Value(t).patient_id = Subject(t)
            /\ Value(t).history = Stored(memory, Subject(t))
            /\ Value(t).decision_count = Len(Value(t).history)
            /\ ~memory["patient:" \o Subject(t) \o ":decision_history"].present =>
                   (Value(t).decision_count = 0 /\ Value(t).history = <<>>)]_vars

\* get_decision_history has returned the empty history of P003 while P001
\* has a history.
C16_Witness ==
    \E t \in TaskIds :
        /\ tasks[t].op = "get_decision_history"
        /\ tasks[t].pc = "done"
        /\ tasks[t].args.patient_id = "P003"
        /\ tasks[t].ret.value.decision_count = 0
        /\ Stored(memory, "P001") # <<>>

\* C17: send_notification returns a record whose type is
\* 'CLINICAL_ESCALATION' if and only if the decision argument equals
\* 'escalate' and 'MONITORING_UPDATE' for every other decision value, whose
\* status is 'sent', and whose patient_id, risk_level and message are the
\* patient id, risk level and rationale passed in; it changes no memory key.
C17_SendNotification ==
    [][\A t \in TaskIds :
        Takes(t, "send_notification") =>
            /\ tasks'[t].pc = "done"
            /\ Value(t).type = "CLINICAL_ESCALATION"
                   <=> tasks'[t].args.decision = "escalate"
            /\ Value(t).type = "MONITORING_UPDATE"
                   <=> tasks'[t].args.decision # "escalate"
            /\ Value(t).status = "sent"
            /\ Value(t).patient_id = tasks'[t].args.patient_id
            /\ Value(t).risk_level = tasks'[t].args.risk_level
            /\ Value(t).message = tasks'[t].args.rationale
            /\ memory' = memory]_vars

\* send_notification has returned a monitoring update for a decision that
\* differs from 'escalate' by case only, with memory not empty.
C17_Witness ==
    \E t \in TaskIds :
        /\ tasks[t].op = "send_notification"
        /\ tasks[t].pc = "done"
        /\ tasks[t].args.decision = "ESCALATE"
        /\ tasks[t].ret.value.type = "MONITORING_UPDATE"
        /\ Written(memory)

\* The places of an entry in a history.
Places(history, e) == {i \in 1..Len(history) : history[i] = e}

\* C18, as claimed: every triage_patient(p) run that returns does so with
\* workflow = 'complete' and patient_id = p, and the decision history of p
\* then holds exactly one entry of the run, whose decision payload is the
\* decision returned in the result.
C18_AsClaimed ==
    [][\A t \in TaskIds :
        Returns(t, "triage_patient") =>
            /\ Value(t).workflow = "complete"
            /\ Value(t).patient_id = Subject(t)
            /\ tasks[t].entry.decision = Value(t).decision
            /\ Cardinality(Places(Stored(memory', Subject(t)),
                                  tasks[t].entry)) = 1]_vars

\* A triage_patient run has returned with its entry in the history.
C18_Witness ==
    \E t \in TaskIds :
        /\ tasks[t].op = "triage_patient"
        /\ tasks[t].pc = "done"
        /\ tasks[t].ret.value.workflow = "complete"
        /\ \E i \in 1..Len(Stored(memory, tasks[t].args.patient_id)) :
               Stored(memory, tasks[t].args.patient_id)[i].decision
                   = tasks[t].ret.value.decision

\* The task has sent a notification in its call.
Notified(t) == tasks'[t].notification # [present |-> FALSE]

\* C19: in triage_patient a notification is sent if and only if the AI
\* decision is 'escalate': a run that returns has sent a notification (a
\* clinical escalation for its patient) exactly when the decision it returns
\* has escalation_decision = 'escalate', and its notification_sent says so;
\* and at no point of a run is a notification sent for another decision.
C19_NotifyIffEscalate ==
    [][\A t \in TaskIds :
        /\ Returns(t, "triage_patient") =>
              /\ Value(t).notification_sent
                     <=> Value(t).decision.escalation_decision = "escalate"
              /\ Notified(t) <=> Value(t).decision.escalation_decision = "escalate"
              /\ Notified(t) =>
                    /\ tasks'[t].notification.type = "CLINICAL_ESCALATION"
                    /\ tasks'[t].notification.patient_id = Subject(t)
                    /\ tasks'[t].notification.status = "sent"
        /\ (/\ tasks'[t].op = "triage_patient"
            /\ tasks'[t].pc \in {"log_get", "log_set", "log_ret"}) =>
              (Notified(t) <=> tasks'[t].decision.escalation_decision = "escalate")
        /\ (/\ tasks'[t].op = "triage_patient"
            /\ tasks'[t].pc \in {"store_ret", "eval_ai", "raised"}) =>
              ~Notified(t)]_vars

\* One triage_patient run has returned an 'escalate' decision with its
\* notification sent.
C19_Witness ==
    \E t \in TaskIds :
        /\ tasks[t].op = "triage_patient"
        /\ tasks[t].pc = "done"
        /\ tasks[t].ret.value.decision.escalation_decision = "escalate"
        /\ tasks[t].ret.value.notification_sent
        /\ tasks[t].notification.type = "CLINICAL_ESCALATION"

\* Another has returned a 'monitor' decision with no notification sent.
C19_WitnessMonitor ==
    \E t \in TaskIds :
        /\ tasks[t].op = "triage_patient"
        /\ tasks[t].pc = "done"
        /\ tasks[t].ret.value.decision.escalation_decision = "monitor"
        /\ ~tasks[t].ret.value.notification_sent

\* C20: triage_patient called with an identifier that matches no patient
\* record raises, and has written no memory key (neither context nor
\* decision history), has not called the AI service and has sent no
\* notification.  (The note that the workflow starts is emitted before the
\* failure.)
C20_TriageUnknown ==
    [][\A t \in TaskIds :
        (Takes(t, "triage_patient") /\ Unknown(Subject(t))) =>
            /\ tasks'[t].pc = "raised"
            /\ Error(t).status = "raise"
            /\ memory' = memory
            /\ tasks'[t].ai_calls = 0
            /\ ~Notified(t)
            /\ tasks'[t].notes = <<"Starting triage workflow">>]_vars

\* triage_patient has raised for P003 without a word from the AI, in a
\* memory that holds something.
C20_Witness ==
    \E t \in TaskIds :
        /\ tasks[t].op = "triage_patient"
        /\ tasks[t].pc = "raised"
        /\ tasks[t].args.patient_id = "P003"
        /\ tasks[t].ret.message = "Patient P003 not found"
        /\ tasks[t].ai_calls = 0
        /\ Written(memory)

\* The decision is within the EscalationDecision schema as the claim states
\* it (confidence in hundredths).
WithinSchema(decision) ==
    /\ decision.escalation_decision \in {"escalate", "monitor"}
    /\ decision.risk_level \in {"low", "medium", "high"}
    /\ decision.confidence >= 0
    /\ decision.confidence <= 100

\* C21: every decision evaluate_risk returns, and every decision
\* triage_patient logs and returns, has escalation_decision in {escalate,
\* monitor}, risk_level in {low, medium, high} and confidence within [0, 1];
\* an answer of the AI ends the wait of evaluate_risk either with such a
\* decision or with an error raised (a validation error for an answer
\* outside the schema), never with another value returned.
C21_DecisionsWithinSchema ==
    [][\A t \in TaskIds :
        /\ Returns(t, "evaluate_risk") => WithinSchema(Value(t))
        /\ Returns(t, "triage_patient") => WithinSchema(Value(t).decision)
        /\ (tasks'[t].op = "triage_patient" /\ tasks'[t].pc = "log_get") =>
              WithinSchema(tasks'[t].entry.decision)
        /\ (tasks[t].pc = "eval_ai" /\ tasks'[t].pc # "eval_ai") =>
              \/ /\ tasks'[t].pc = "raised"
                 /\ Error(t).error \in {"ValidationError", "AIError"}
              \/ /\ tasks'[t].pc = "done"
                 /\ WithinSchema(Value(t))
              \/ /\ tasks'[t].pc = "log_get"
                 /\ WithinSchema(tasks'[t].decision)]_vars

\* evaluate_risk has returned a decision at the upper end of the confidence
\* range.
C21_Witness ==
    \E t \in TaskIds :
        /\ tasks[t].op = "evaluate_risk"
        /\ tasks[t].pc = "done"
        /\ tasks[t].ret.value.confidence = 100
        /\ tasks[t].ret.value.escalation_decision = "escalate"

\* An answer outside the schema has been rejected with a validation error.
C21_WitnessRejected ==
    \E t \in TaskIds :
        /\ tasks[t].op = "evaluate_risk"
        /\ tasks[t].pc = "raised"
        /\ tasks[t].ret.error = "ValidationError"

\* The positions of a triage_patient run, in the order of its steps: the
\* context is being stored, the AI has been asked, the history is being
\* read, the history is being set, the history has been set.
TriageOrder ==
    {<<"idle", "store_ret">>, <<"idle", "raised">>,
     <<"store_ret", "eval_ai">>,
     <<"eval_ai", "log_get">>, <<"eval_ai", "raised">>,
     <<"log_get", "log_set">>,
     <<"log_set", "log_ret">>,
     <<"log_ret", "done">>}

\* C22: within one triage_patient run the steps happen in the order store
\* context -> AI risk evaluation -> notification (only when escalating) ->
\* decision log, each at most once: the run moves only forward through
\* its steps; its context is written only by its first step, the AI is
\* asked only by the next one, only once and only with the context of its
\* patient stored; a notification is sent only in the step in which the AI
\* answers; and the history is set only by the step after the history was
\* read, with the decision the AI returned.
C22_TriageStepOrder ==
    [][\A t \in TaskIds :
        (tasks'[t].op = "triage_patient" /\ tasks'[t] # tasks[t]) =>
            /\ <<tasks[t].pc, tasks'[t].pc>> \in TriageOrder
            /\ tasks'[t].ai_calls <= 1
            /\ tasks'[t].ai_calls # tasks[t].ai_calls =>
                  /\ tasks[t].pc = "store_ret"
                  /\ memory["patient:" \o Subject(t) \o ":context"].present
            /\ (tasks[t].pc # "idle" /\ Notified(t)) =>
                  \/ tasks[t].notification = tasks'[t].notification
                  \/ tasks[t].pc = "eval_ai"
            /\ tasks[t].pc = "idle" => ~Notified(t)
            /\ tasks'[t].pc \in {"log_get", "log_set", "log_ret"} =>
                  /\ tasks'[t].ai_calls = 1
                  /\ tasks'[t].decision # [present |-> FALSE]
                  /\ tasks'[t].entry.decision = tasks'[t].decision
            /\ memory' # memory => tasks[t].pc \in {"idle", "log_set"}
            /\ Stored(memory', Subject(t)) # Stored(memory, Subject(t)) =>
                  /\ tasks[t].pc = "log_set"
                  /\ Stored(memory', Subject(t))[Len(Stored(memory', Subject(t)))]
                         .decision = tasks[t].decision]_vars

\* A triage_patient run has gone through all its steps with a notification.
C22_Witness ==
    \E t \in TaskIds :
        /\ tasks[t].op = "triage_patient"
        /\ tasks[t].pc = "done"
        /\ tasks[t].ai_calls = 1
        /\ tasks[t].notification # [present |-> FALSE]
        /\ tasks[t].notes = <<"Starting triage workflow",
                              "Risk evaluation complete",
                              "Triage complete">>

\* C23, as claimed: when log_decision calls for the same patient overlap, no
\* logged decision is lost: an entry once stored in a history stays in it,
\* and a log_decision call that returns has its entry in the history of its
\* patient exactly once.
C23_AsClaimed ==
    [][/\ \A p \in PatientIds :
            \A i \in 1..Len(Stored(memory, p)) :
                Places(Stored(memory', p), Stored(memory, p)[i]) # {}
       /\ \A t \in TaskIds :
            Returns(t, "log_decision") =>
                Cardinality(Places(Stored(memory', Subject(t)),
                                   Value(t).entry)) = 1]_vars

\* Two log_decision calls for P001 overlap: each has read the history and
\* neither has set it.
C23_Witness ==
    /\ \A t \in TaskIds :
          /\ tasks[t].op = "log_decision"
          /\ tasks[t].args.patient_id = "P001"
          /\ tasks[t].pc = "log_set"
    /\ tasks["t1"].existing # tasks["t2"].existing

\* The task takes a step.
Acting(t) == tasks'[t] # tasks[t]

\* The operation the step of the task belongs to, and its patient.
OpOf(t) == IF tasks[t].pc = "idle" THEN tasks'[t].op ELSE tasks[t].op

PatientOf(t) ==
    IF tasks[t].pc = "idle" THEN tasks'[t].args.patient_id
    ELSE tasks[t].args.patient_id

\* C24: every operation writes only its own key of its own patient.  A step
\* of store_patient_context(p) changes at most 'patient:<p>:context', a step
\* of log_decision(p, d) at most 'patient:<p>:decision_history', a step of
\* triage_patient(p), which calls both, at most these two keys, and a step
\* of get_patient_context, get_decision_history, evaluate_risk or
\* send_notification changes no key; memory changes only in a step of some
\* operation; so a step of an operation for p leaves the context and the
\* decision history of every other patient q as they were.
C24_OwnKeyOnly ==
    [][/\ memory' # memory => \E t \in TaskIds : Acting(t)
       /\ \A t \in TaskIds :
            Acting(t) =>
              /\ \A key \in MemoryKeys :
                    memory'[key] # memory[key] =>
                      \/ /\ OpOf(t) \in {"store_patient_context", "triage_patient"}
                         /\ key = "patient:" \o PatientOf(t) \o ":context"
                      \/ /\ OpOf(t) \in {"log_decision", "triage_patient"}
                         /\ key = "patient:" \o PatientOf(t) \o ":decision_history"
              /\ OpOf(t) \in {"get_patient_context", "get_decision_history",
                              "evaluate_risk", "send_notification"} =>
                    memory' = memory
              /\ \A q \in PatientIds \ {PatientOf(t)} :
                    /\ memory'["patient:" \o q \o ":context"]
                           = memory["patient:" \o q \o ":context"]
                    /\ memory'["patient:" \o q \o ":decision_history"]
                           = memory["patient:" \o q \o ":decision_history"]]_vars

\* A call for P002 has set the decision history of P002 while memory holds
\* the context and a decision history of P001.
C24_Witness ==
    /\ memory["patient:P001:context"].present
    /\ Stored(memory, "P001") # <<>>
    /\ \E t \in TaskIds :
          /\ tasks[t].args.patient_id = "P002"
          /\ tasks[t].pc = "log_ret"
          /\ Stored(memory, "P002") # <<>>

C26_AiFailureInTriage ==
    [][\A t \in TaskIds :
        /\ (/\ tasks[t].op = "triage_patient"
            /\ tasks[t].pc = "eval_ai"
            /\ tasks'[t].pc \notin {"eval_ai", "log_get"}) =>
              /\ tasks'[t].pc = "raised"
              /\ Error(t).status = "raise"
              /\ Error(t).error \in {"AIError", "ValidationError"}
              /\ ~Notified(t)
              /\ tasks'[t].entry = [present |-> FALSE]
              /\ clock' = clock
              /\ memory' = memory
              /\ memory'["patient:" \o Subject(t) \o ":context"]
                     = [present |-> TRUE, value |-> Normal(Subject(t))]
        /\ (/\ tasks[t].op = "triage_patient"
            /\ tasks[t].pc \in {"store_ret", "eval_ai"}) =>
              /\ Stored(memory', tasks[t].args.patient_id)
                     = Stored(memory, tasks[t].args.patient_id)
                 \/ \E u \in TaskIds \ {t} : Acting(u)
              /\ tasks[t].entry = [present |-> FALSE]
        /\ (tasks[t].op = "triage_patient" /\ tasks[t].pc = "raised") =>
              /\ tasks'[t].pc = "idle"
              /\ memory' = memory]_vars

\* A triage_patient run for P001 has raised the failure of the AI call: the
\* context of P001 is stored and its history empty.
C26_Witness ==
    \E t \in TaskIds :
        /\ tasks[t].op = "triage_patient"
        /\ tasks[t].pc = "raised"
        /\ tasks[t].args.patient_id = "P001"
        /\ tasks[t].ret.error = "AIError"
        /\ memory["patient:P001:context"].present
        /\ Stored(memory, "P001") = <<>>

\* Another has raised the validation error of an output outside the schema.
C26_WitnessRejected ==
    \E t \in TaskIds :
        /\ tasks[t].op = "triage_patient"
        /\ tasks[t].pc = "raised"
        /\ tasks[t].ret.error = "ValidationError"
        /\ memory["patient:" \o tasks[t].args.patient_id \o ":context"].present

\* The record normalize_patient finds for the identifier of the call, in a
\* list that is empty when there is none.
FoundRecord == FindPatient(patients, call.patient_id)

\* C27, as claimed: for every patient record that exists in the store,
\* normalize_patient returns a context: no found record, whatever its age
\* and whether or not its series are empty, makes normalization fail.
C27_AsClaimed ==
    (call.op = "normalize_patient" /\ Len(FoundRecord) > 0) =>
        ret.status = "return"

\* C27: for every record found in the store whose age is within 0..150,
\* normalize_patient returns a context, whether or not its series are empty;
\* a record found with an age outside 0..150 makes it raise the validation
\* error of the PatientContext schema; and an identifier that matches no
\* record makes it raise not-found.  These are the only two errors.
C27_NormalizeErrors ==
    call.op = "normalize_patient" =>
        /\ ret.status \in {"return", "raise"}
        /\ ret.status = "return" <=>
              /\ Len(FoundRecord) > 0
              /\ FoundRecord[1].age >= 0
              /\ FoundRecord[1].age <= 150
        /\ (ret.status = "raise" /\ Len(FoundRecord) = 0) =>
              /\ ret.error = "ValueError"
              /\ ret.message = "Patient " \o call.patient_id \o " not found"
        /\ (ret.status = "raise" /\ Len(FoundRecord) > 0) =>
              ret.error = "ValidationError"

\* normalize_patient has returned the context of a record of age 150, the
\* upper end of the range.
C27_Witness ==
    /\ call.op = "normalize_patient"
    /\ ret.status = "return"
    /\ Len(FoundRecord) > 0
    /\ FoundRecord[1].age = 150

\* It has returned for a record with an empty series.
C27_WitnessEmptySeries ==
    /\ call.op = "normalize_patient"
    /\ ret.status = "return"
    /\ Len(FoundRecord) > 0
    /\ \E i \in 1..Len(FoundRecord[1].labs) :
           FoundRecord[1].labs[i].v.values = <<>>

\* It has raised the validation error for a record of age 151.
C27_WitnessAge ==
    /\ call.op = "normalize_patient"
    /\ ret.status = "raise"
    /\ Len(FoundRecord) > 0
    /\ FoundRecord[1].age = 151
    /\ ret.error = "ValidationError"

\* The name of a vital as a fragment of the summary says it.
Spoken(name) ==
    CASE name = "heart_rate"  -> "heart rate"
      [] name = "temperature" -> "temperature"

\* C28: the vital_trends mapping returned by normalize_patient has one entry
\* for exactly the vitals whose series has at least one value, each entry
\* one of 'increasing', 'decreasing', 'stable'; a vital with an empty series
\* gets no entry and no fragment of trend_summary; and trend_summary is
\* 'all metrics stable' only if every entry of vital_trends is 'stable'.
C28_TrendEntries ==
    Normalized =>
        /\ {e.k : e \in Range(ret.value.vital_trends)}
               = {e.k : e \in {v \in Range(Requested.vitals) :
                                   Len(v.v.values) >= 1}}
        /\ \A i, j \in 1..Len(ret.value.vital_trends) :
               i # j => ret.value.vital_trends[i].k # ret.value.vital_trends[j].k
        /\ \A e \in Range(ret.value.vital_trends) :
               e.v \in {"increasing", "decreasing", "stable"}
        /\ \A v \in Range(Requested.vitals) :
               v.v.values = <<>> =>
                   /\ TrendOf(v.k) = "absent"
                   /\ \A p \in Range(parts) : ~StartsWith(p, Spoken(v.k) \o " ")
        /\ ret.value.trend_summary = "all metrics stable" =>
               \A e \in Range(ret.value.vital_trends) : e.v = "stable"

\* A record whose temperature series is empty and whose heart rate rose: the
\* mapping has the heart rate only, and the summary says so.
C28_Witness ==
    /\ Normalized
    /\ \E v \in Range(Requested.vitals) :
           v.k = "temperature" /\ v.v.values = <<>>
    /\ ret.value.vital_trends = <<[k |-> "heart_rate", v |-> "increasing"]>>
    /\ ret.value.trend_summary = "heart rate increasing"

\* A record with stable vitals only has the summary 'all metrics stable'.
C28_WitnessStable ==
    /\ Normalized
    /\ ret.value.vital_trends # <<>>
    /\ ret.value.trend_summary = "all metrics stable"

\* C29, as claimed: the direction normalize_patient computes never
\* contradicts the change between the last two values, for all values
\* including zero and negative ones: a vital reported 'increasing' has
\* curr > prev, a vital reported 'decreasing' has curr < prev, and a vital
\* whose last two values are equal is reported 'stable'.
C29_AsClaimed ==
    Normalized =>
        \A e \in Range(Requested.vitals) :
            Len(e.v.values) >= 2 =>
                /\ TrendOf(e.k) = "increasing" =>
                       Curr(e.v.values) > Prev(e.v.values)
                /\ TrendOf(e.k) = "decreasing" =>
                       Curr(e.v.values) < Prev(e.v.values)
                /\ Curr(e.v.values) = Prev(e.v.values) =>
                       TrendOf(e.k) = "stable"

\* normalize_patient has reported a heart rate of -10 and then -10 as
\* 'increasing'.
C29_Witness ==
    /\ Normalized
    /\ DictGet(Requested.vitals, "heart_rate", NoSeries).values = <<-10, -10>>
    /\ TrendOf("heart_rate") = "increasing"

\* It has reported a heart rate of -50 and then -55 as 'increasing'.
C29_WitnessFalling ==
    /\ Normalized
    /\ DictGet(Requested.vitals, "heart_rate", NoSeries).values = <<-50, -55>>
    /\ TrendOf("heart_rate") = "increasing"

(***************************************************************************)
(* Specification of the agent with services that answer                   *)
(***************************************************************************)

\* The memory service and the AI service answer every request and the event
\* loop resumes every coroutine whose awaited call was answered: a call in
\* flight that can take its next step again and again takes it, and a
\* finished call is answered.  Calls arrive as the callers please.
Fairness ==
    \A t \in TaskIds : SF_vars(Step(t)) /\ WF_vars(respond(t))

SpecFair == Init /\ [][Next]_vars /\ Fairness

\* The task is in a triage_patient run that has not finished.
InTriage(t) ==
    tasks[t].op = "triage_patient" /\ tasks[t].pc \notin {"idle", "done", "raised"}

\* The run of the task has the decision of the AI.
Decided(t) == tasks[t].op = "triage_patient" /\ tasks[t].pc = "log_get"

\* The entry of the run of the task is in the history of its patient.
Logged(t) ==
    /\ tasks[t].op = "triage_patient"
    /\ tasks[t].pc = "log_ret"
    /\ tasks[t].entry.decision = tasks[t].decision
    /\ Places(Stored(memory, tasks[t].args.patient_id), tasks[t].entry) # {}

\* C30: with a memory service and an AI service that answer every request,
\* every triage_patient run eventually finishes (returns or raises), and
\* every run in which the AI returned a decision eventually has that
\* decision, in the entry of the run, in the decision history of its
\* patient.
C30_TriageLive ==
    \A t \in TaskIds :
        /\ InTriage(t) ~> (tasks[t].op = "triage_patient"
                              /\ tasks[t].pc \in {"done", "raised"})
        /\ Decided(t) ~> Logged(t)

\* A triage_patient run has finished with 'complete' while another call was
\* in flight.
C30_Witness ==
    \E t, u \in TaskIds :
        /\ tasks[t].op = "triage_patient"
        /\ tasks[t].pc = "done"
        /\ tasks[t].ret.value.workflow = "complete"
        /\ tasks[u].pc \notin {"idle", "done", "raised"}

====
